---- MODULE Spec2Model ----
(***************************************************************************)
(* Chord detection engine of the virtual piano (utils/chordDetector):      *)
(* pitch utilities, Heap's permutation generator, the minimum-energy       *)
(* stacking resolver, the chord template database built at module load,    *)
(* and detectChord; and the piano hook (components/Piano, usePiano) that   *)
(* keeps the set of sounding notes under keyboard, mouse and MIDI events   *)
(* and hands it to detectChord.  Strings that the code inspects character  *)
(* by character (note identifiers, comma-joined patterns) are sequences of *)
(* one-character strings; strings that are only concatenated and compared  *)
(* are strings.                                                            *)
(***************************************************************************)
EXTENDS Integers, Sequences, FiniteSets, TLC

VARIABLES
    pc,              \* "load": module not evaluated yet; "ready"; "returned"
    CHORD_FORMULAS,  \* the module-level template array
    notes,           \* the caller's argument: [present, list] (list of identifiers)
    useFlats,        \* opts?.useFlats
    outcome,         \* "none" | "null" | "string" | "throw"
    result,          \* the returned string when outcome = "string"
    branch,          \* which return statement produced the result
    noteClasses,     \* detectChord's local noteClasses (<<>> before line 214 runs)
    stackedChord,    \* detectChord's local stackedChord (<<>> when the search did not run)
    formulaIndex,    \* 1-based position of the template that matched, 0 for none
    searchRuns,      \* calls of getAsStackedChord made by the detectChord call
    scanRuns,        \* database scans (the for loop of line 221) made by the call
    calls,           \* number of detectChord calls completed so far
    firstCall,       \* argument, flag and return value of the first call
    \* usePiano
    started,         \* isAudioContextStarted, and with it samplerRef.current
    isLoaded,        \* the sampler's samples are loaded
    activeNotes,     \* the Set of effective notes, in insertion order
    octave,
    transpose,
    sustainDown,     \* sustainDownRef.current
    sustainedNotes,  \* sustainedNotesRef.current
    heldEffective,   \* currentlyHeldEffectiveRef.current
    currentlyPlayingNotes,  \* key code -> base note it started (NoNote: none)
    midiPlayingNotes,       \* MIDI note number -> base name (NoNote: none)
    midiClosures,    \* transpose captured by each attached onMessage, in order
    \* the player
    keysDown,        \* note keys and Space physically down
    pointerNote,     \* on-screen key under the pressed pointer (NoNote: none)
    midiOn,          \* MIDI note numbers physically down
    midiPedal,       \* the MIDI sustain pedal is physically down
    settingChanges,  \* octave, transpose and spelling changes made so far
    keySounds,       \* history: key code -> effective note its press attacked
    midiSounds       \* history: MIDI number -> effective note its Note On attacked

vars == <<pc, CHORD_FORMULAS, notes, useFlats, outcome, result, branch,
          noteClasses, stackedChord, formulaIndex, searchRuns, scanRuns,
          calls, firstCall, started, isLoaded, activeNotes, octave, transpose,
          sustainDown, sustainedNotes, heldEffective, currentlyPlayingNotes,
          midiPlayingNotes, midiClosures, keysDown, pointerNote, midiOn, midiPedal,
          settingChanges, keySounds, midiSounds>>

hookVars == <<started, isLoaded, activeNotes, octave, transpose, sustainDown,
              sustainedNotes, heldEffective, currentlyPlayingNotes,
              midiPlayingNotes, midiClosures, keysDown, pointerNote, midiOn,
              midiPedal, settingChanges, keySounds,
              midiSounds>>

----------------------------------------------------------------------------
(* Generic helpers for JavaScript semantics *)

\* JavaScript's % : the remainder takes the sign of the dividend.
JsRem(a, b) == IF a >= 0 THEN a % b ELSE -((-a) % b)

\* Array.prototype.indexOf, 0-based, -1 when absent.
IndexOf(seq, x) ==
    IF \E i \in 1..Len(seq) : seq[i] = x
    THEN (CHOOSE i \in 1..Len(seq) : seq[i] = x /\ \A j \in 1..(i-1) : seq[j] # x) - 1
    ELSE -1

\* Number -> decimal string, as a sequence of characters (values 0..99).
DigitChars == <<"0", "1", "2", "3", "4", "5", "6", "7", "8", "9">>
NumChars(n) ==
    IF n < 10 THEN <<DigitChars[n + 1]>>
    ELSE <<DigitChars[(n \div 10) + 1], DigitChars[(n % 10) + 1]>>

\* Array.prototype.join(',') of numbers, as a sequence of characters.
RECURSIVE JoinComma(_)
JoinComma(nums) ==
    IF Len(nums) = 0 THEN <<>>
    ELSE IF Len(nums) = 1 THEN NumChars(nums[1])
    ELSE NumChars(nums[1]) \o <<",">> \o JoinComma(Tail(nums))

\* Collation rank of the characters of a joined pattern: punctuation sorts
\* before digits, digits in numeric order.
CharRank(c) == IF c = "," THEN 0 ELSE IndexOf(DigitChars, c) + 1

\* String.prototype.localeCompare on joined patterns: <0, 0, >0.
localeCompare(a, b) ==
    LET m == IF Len(a) < Len(b) THEN Len(a) ELSE Len(b)
        diffs == {i \in 1..m : a[i] # b[i]}
    IN  IF diffs = {}
        THEN (IF Len(a) < Len(b) THEN -1 ELSE IF Len(a) > Len(b) THEN 1 ELSE 0)
        ELSE LET k == CHOOSE i \in diffs : \A j \in diffs : i <= j
             IN  IF CharRank(a[k]) < CharRank(b[k]) THEN -1 ELSE 1

\* Array.prototype.sort((a, b) => a - b) on numbers (insertion sort).
RECURSIVE InsertAsc(_, _)
InsertAsc(sorted, x) ==
    IF sorted = <<>> THEN <<x>>
    ELSE IF x < Head(sorted) THEN <<x>> \o sorted
    ELSE <<Head(sorted)>> \o InsertAsc(Tail(sorted), x)
\* Mutant of SortAsc: the comparator is reversed (b - a).
RECURSIVE SortAsc_descending(_)
SortAsc_descending(seq) ==
    IF seq = <<>> THEN <<>>
    ELSE LET x == seq[Len(seq)]
             rest == SortAsc_descending(SubSeq(seq, 1, Len(seq) - 1))
         IN  SelectSeq(rest, LAMBDA y : y >= x) \o <<x>>
             \o SelectSeq(rest, LAMBDA y : y < x)

\* Mutant of SortAsc: the pitches are left in the caller's order.
SortAsc_unsorted(seq) == seq

RECURSIVE SortAsc(_)
SortAsc(seq) ==
    IF seq = <<>> THEN <<>>
    ELSE InsertAsc(SortAsc(SubSeq(seq, 1, Len(seq) - 1)), seq[Len(seq)])

\* Mutant of Dedupe: the distinct values come out in ascending order instead
\* of insertion order.
RECURSIVE Dedupe_ascending(_)
Dedupe_ascending(seq) ==
    IF seq = <<>> THEN <<>>
    ELSE LET init == Dedupe_ascending(SubSeq(seq, 1, Len(seq) - 1))
             x == seq[Len(seq)]
         IN  IF \E i \in 1..Len(init) : init[i] = x THEN init ELSE InsertAsc(init, x)

\* [...new Set(seq)]: first occurrences, in insertion order.
RECURSIVE Dedupe(_)
Dedupe(seq) ==
    IF seq = <<>> THEN <<>>
    ELSE LET init == Dedupe(SubSeq(seq, 1, Len(seq) - 1))
             x == seq[Len(seq)]
         IN  IF \E i \in 1..Len(init) : init[i] = x THEN init ELSE Append(init, x)

RECURSIVE SumSeq(_)
SumSeq(seq) == IF seq = <<>> THEN 0 ELSE Head(seq) + SumSeq(Tail(seq))

----------------------------------------------------------------------------
(* Music theory helpers *)

SHARP_NOTES == <<"C", "C#", "D", "D#", "E", "F", "F#", "G", "G#", "A", "A#", "B">>
FLAT_NOTES  == <<"C", "Db", "D", "Eb", "E", "F", "Gb", "G", "Ab", "A", "Bb", "B">>

Letters == {"A", "B", "C", "D", "E", "F", "G"}

\* Mutant of noteToMidi: the accidental class also admits a flat sign, and the
\* flat name is then looked up in SHARP_NOTES.
noteToMidi_acceptsFlats(note) ==
    LET n == Len(note)
        matches == /\ n \in {2, 3}
                   /\ note[1] \in Letters
                   /\ (n = 3 => note[2] \in {"#", "b"})
                   /\ \E d \in 1..10 : DigitChars[d] = note[n]
    IN  IF ~matches THEN -1
        ELSE LET name == IF n = 3 THEN note[1] \o note[2] ELSE note[1]
                 oct == IndexOf(DigitChars, note[n])
                 noteIndex == IndexOf(SHARP_NOTES, name)
             IN  12 * (oct + 1) + noteIndex

\* noteToMidi: /^([A-G]#?)([0-9])$/ on the identifier's characters.
noteToMidi(note) ==
    LET n == Len(note)
        matches == /\ n \in {2, 3}
                   /\ note[1] \in Letters
                   /\ (n = 3 => note[2] = "#")
                   /\ \E d \in 1..10 : DigitChars[d] = note[n]
    IN  IF ~matches THEN -1
        ELSE LET name == IF n = 3 THEN note[1] \o "#" ELSE note[1]
                 oct == IndexOf(DigitChars, note[n])
                 noteIndex == IndexOf(SHARP_NOTES, name)
             IN  12 * (oct + 1) + noteIndex

\* useSharps ? SHARP_NOTES : FLAT_NOTES
NoteTable(useSharps) == IF useSharps THEN SHARP_NOTES ELSE FLAT_NOTES

midiToNoteName(midi, useSharps) ==
    LET noteIndex == JsRem(JsRem(midi, 12) + 12, 12)
    IN  NoteTable(useSharps)[noteIndex + 1]

----------------------------------------------------------------------------
(* Permutation and stacking logic *)

\* function* permutations (Heap's algorithm).  The generator swaps in place
\* in the shared array and yields array.slice(); the operator returns the
\* yielded copies in order together with the array as the call leaves it.
RECURSIVE permutations(_, _)
RECURSIVE PermLoop(_, _, _, _)
permutations(array, n) ==
    IF n <= 1 THEN [out |-> <<array>>, array |-> array]
    ELSE PermLoop(array, n, 0, <<>>)
\* Mutant of PermLoop: the generator yields the shared array itself, so every
\* ordering the consumer holds shows the array's final content.
RECURSIVE PermLoop_sharedBuffer(_, _, _, _)
PermLoop_sharedBuffer(array, n, i, acc) ==
    IF i >= n THEN [out |-> [k \in 1..Len(acc) |-> array], array |-> array]
    ELSE LET r == permutations(array, n - 1)
             j == IF n % 2 = 1 THEN 0 ELSE i
             swapped == [r.array EXCEPT ![n] = r.array[j + 1], ![j + 1] = r.array[n]]
         IN  PermLoop_sharedBuffer(swapped, n, i + 1, acc \o r.out)

PermLoop(array, n, i, acc) ==
    IF i >= n THEN [out |-> acc, array |-> array]
    ELSE LET r == permutations(array, n - 1)
             j == IF n % 2 = 1 THEN 0 ELSE i
             swapped == [r.array EXCEPT ![n] = r.array[j + 1], ![j + 1] = r.array[n]]
         IN  PermLoop(swapped, n, i + 1, acc \o r.out)

\* Mutant of getIntervalPattern: an octave is added to every difference, not
\* only to the negative ones.
getIntervalPattern_addsOctave(chord) ==
    IF Len(chord) < 2 THEN <<0>>
    ELSE [i \in 1..(Len(chord) - 1) |->
            LET interval == chord[i + 1] - chord[i]
            IN  IF interval < 0 THEN interval + 12 * ((-interval + 11) \div 12)
                ELSE interval + 12]

\* Mutant of getIntervalPattern: a chord of fewer than two notes has the empty
\* pattern.
getIntervalPattern_emptyWhenShort(chord) ==
    IF Len(chord) < 2 THEN <<>>
    ELSE [i \in 1..(Len(chord) - 1) |->
            LET interval == chord[i + 1] - chord[i]
            IN  IF interval < 0 THEN interval + 12 * ((-interval + 11) \div 12)
                ELSE interval]

getIntervalPattern(chord) ==
    IF Len(chord) < 2 THEN <<0>>
    ELSE [i \in 1..(Len(chord) - 1) |->
            LET interval == chord[i + 1] - chord[i]
            IN  IF interval < 0 THEN interval + 12 * ((-interval + 11) \div 12)
                ELSE interval]

\* Mutant of minEnergyChords: the energy comparison is reversed, so the
\* permutations of largest energy are kept.
minEnergyChords_keepsLargest(noteClassesArg) ==
    LET ps == permutations(noteClassesArg, Len(noteClassesArg)).out
        Energy(p) == SumSeq(getIntervalPattern(p))
        energies == {Energy(ps[i]) : i \in 1..Len(ps)}
        maxEnergy == CHOOSE e \in energies : \A f \in energies : e >= f
        IsMax(p) == Energy(p) = maxEnergy
        kept == SelectSeq(ps, IsMax)
    IN  [i \in 1..Len(kept) |->
            [chord |-> kept[i], patternStr |-> JoinComma(getIntervalPattern(kept[i]))]]

\* Lines 83-96 of getAsStackedChord: the minimum-energy permutations, in the
\* order the generator yields them, each with its joined pattern.
minEnergyChords(noteClassesArg) ==
    LET ps == permutations(noteClassesArg, Len(noteClassesArg)).out
        Energy(p) == SumSeq(getIntervalPattern(p))
        energies == {Energy(ps[i]) : i \in 1..Len(ps)}
        minEnergy == CHOOSE e \in energies : \A f \in energies : e <= f
        IsMin(p) == Energy(p) = minEnergy
        kept == SelectSeq(ps, IsMin)
    IN  [i \in 1..Len(kept) |->
            [chord |-> kept[i], patternStr |-> JoinComma(getIntervalPattern(kept[i]))]]

\* Mutant of SortedFirst: the entry with the largest joined pattern is taken.
SortedFirst_largest(entries) ==
    LET first == CHOOSE i \in 1..Len(entries) :
                     /\ \A k \in 1..Len(entries) :
                            localeCompare(entries[i].patternStr, entries[k].patternStr) >= 0
                     /\ \A k \in 1..(i - 1) :
                            localeCompare(entries[k].patternStr, entries[i].patternStr) # 0
    IN  entries[first]

\* Element 0 of a stable sort by localeCompare(patternStr): the earliest
\* entry that no entry precedes.
SortedFirst(entries) ==
    LET first == CHOOSE i \in 1..Len(entries) :
                     /\ \A k \in 1..Len(entries) :
                            localeCompare(entries[i].patternStr, entries[k].patternStr) <= 0
                     /\ \A k \in 1..(i - 1) :
                            localeCompare(entries[k].patternStr, entries[i].patternStr) # 0
    IN  entries[first]

\* Mutant of getAsStackedChord: the pitch classes in ascending order, without
\* the search for the rotation of least energy.
getAsStackedChord_ascending(noteClassesArg) ==
    [threw |-> FALSE, chord |-> SortAsc(noteClassesArg)]

\* getAsStackedChord, as the completion of the call: the returned array, or
\* the TypeError that minEnergyChords[0].chord raises on an empty array.
getAsStackedChord(noteClassesArg) ==
    IF Len(noteClassesArg) <= 1 THEN [threw |-> FALSE, chord |-> noteClassesArg]
    ELSE LET entries == minEnergyChords(noteClassesArg)
         IN  IF Len(entries) = 0 THEN [threw |-> TRUE, chord |-> <<>>]
             ELSE [threw |-> FALSE, chord |-> SortedFirst(entries).chord]

\* Mutant of getIntervalName: 12 is subtracted once (if) instead of while the
\* difference exceeds 21.
getIntervalName_foldsOnce(semitones) ==
    LET abs == IF semitones < 0 THEN -semitones ELSE semitones
        diff == IF abs > 21 THEN abs - 12 ELSE abs
        names == <<"Unison", "Minor 2nd", "Major 2nd", "Minor 3rd", "Major 3rd",
                   "Perfect 4th", "Tritone", "Perfect 5th", "Minor 6th (or #5)",
                   "Major 6th", "Minor 7th", "Major 7th", "Octave", "Flat 9th",
                   "9th", "Minor 10th (or #9)", "Major 10th", "11th",
                   "Augmented 11th", "Perfect 12th", "Flat 13th", "13th">>
    IN  IF diff \in 0..21 THEN [found |-> TRUE, name |-> names[diff + 1]]
        ELSE [found |-> FALSE, name |-> ""]

getIntervalName(semitones) ==
    LET abs == IF semitones < 0 THEN -semitones ELSE semitones
        diff == IF abs > 21 THEN abs - 12 * ((abs - 21 + 11) \div 12) ELSE abs
        names == <<"Unison", "Minor 2nd", "Major 2nd", "Minor 3rd", "Major 3rd",
                   "Perfect 4th", "Tritone", "Perfect 5th", "Minor 6th (or #5)",
                   "Major 6th", "Minor 7th", "Major 7th", "Octave", "Flat 9th",
                   "9th", "Minor 10th (or #9)", "Major 10th", "11th",
                   "Augmented 11th", "Perfect 12th", "Flat 13th", "13th">>
    IN  IF diff \in 0..21 THEN [found |-> TRUE, name |-> names[diff + 1]]
        ELSE [found |-> FALSE, name |-> ""]

----------------------------------------------------------------------------
(* Chord database *)

\* String.prototype.toUpperCase on the note tokens the definitions use.
toUpperCase ==
    ("a" :> "A") @@ ("a#" :> "A#") @@ ("b" :> "B") @@ ("bb" :> "BB") @@
    ("c" :> "C") @@ ("c#" :> "C#") @@ ("d" :> "D") @@ ("d#" :> "D#") @@
    ("db" :> "DB") @@ ("e" :> "E") @@ ("eb" :> "EB") @@ ("f" :> "F") @@
    ("f#" :> "F#") @@ ("g" :> "G") @@ ("g#" :> "G#") @@ ("gb" :> "GB")

\* String.prototype.replace(from, to) with a two-character pattern on a token
\* of at most two characters: the token is replaced when it is the pattern.
replace(s, from, to) == IF s = from THEN to ELSE s

\* Mutant of Normalise: the chain lacks the replacement of EB by D#.
Normalise_withoutEFlat(n) ==
    replace(replace(replace(replace(replace(replace(replace(replace(
        toUpperCase[n],
        "B#", "C"), "E#", "F"), "FB", "E"), "CB", "B"), "DB", "C#"),
        "GB", "F#"), "AB", "G#"), "BB", "A#")

\* The enharmonic normalisation chain of defineChord, lines 114-123.
Normalise(n) ==
    replace(replace(replace(replace(replace(replace(replace(replace(replace(
        toUpperCase[n],
        "B#", "C"), "E#", "F"), "FB", "E"), "CB", "B"), "DB", "C#"),
        "EB", "D#"), "GB", "F#"), "AB", "G#"), "BB", "A#")

\* defineChord(name, noteStr): noteStr is given as its split(',') tokens.
\* Returns CHORD_FORMULAS after the push.
defineChord(formulas, name, noteStr) ==
    LET defNotes == [i \in 1..Len(noteStr) |-> IndexOf(SHARP_NOTES, Normalise(noteStr[i]))]
        stacked == getAsStackedChord(defNotes).chord
        rootNote == defNotes[1]
        rootIndex == IndexOf(stacked, rootNote)
        pattern == JoinComma(getIntervalPattern(stacked))
    IN  Append(formulas, [name |-> name, pattern |-> pattern, rootIndex |-> rootIndex])

\* The defineChord statements of lines 133-192, in order.
TopLevelDefinitions == <<
    [name |-> "", noteStr |-> <<"c", "e", "g">>],
    [name |-> "5", noteStr |-> <<"c", "g">>],
    [name |-> "6(no3)", noteStr |-> <<"c", "g", "a">>],
    [name |-> "Maj7", noteStr |-> <<"c", "e", "g", "b">>],
    [name |-> "Maj7(#11)", noteStr |-> <<"c", "e", "f#", "b">>],
    [name |-> "add9", noteStr |-> <<"c", "e", "g", "d">>],
    [name |-> "Maj7(9)", noteStr |-> <<"c", "d", "e", "b">>],
    [name |-> "6(9)", noteStr |-> <<"c", "d", "e", "a">>],
    [name |-> "+", noteStr |-> <<"c", "e", "g#">>],
    [name |-> "m", noteStr |-> <<"c", "eb", "g">>],
    [name |-> "madd9", noteStr |-> <<"c", "eb", "g", "d">>],
    [name |-> "m7", noteStr |-> <<"c", "eb", "g", "bb">>],
    [name |-> "m7(9)", noteStr |-> <<"c", "d", "eb", "bb">>],
    [name |-> "mMaj7", noteStr |-> <<"c", "eb", "g", "b">>],
    [name |-> "mMaj7(9)", noteStr |-> <<"c", "d", "eb", "b">>],
    [name |-> "dim", noteStr |-> <<"c", "eb", "f#">>],
    [name |-> "dim7", noteStr |-> <<"c", "eb", "f#", "a">>],
    [name |-> "7", noteStr |-> <<"c", "e", "g", "bb">>],
    [name |-> "7(no5)", noteStr |-> <<"c", "e", "bb">>],
    [name |-> "7sus4", noteStr |-> <<"c", "f", "g", "bb">>],
    [name |-> "7(b5)", noteStr |-> <<"c", "e", "f#", "bb">>],
    [name |-> "7(9)", noteStr |-> <<"c", "d", "e", "bb">>],
    [name |-> "7(13)", noteStr |-> <<"c", "e", "a", "bb">>],
    [name |-> "7(b9)", noteStr |-> <<"c", "c#", "e", "bb">>],
    [name |-> "+7", noteStr |-> <<"c", "e", "g#", "bb">>],
    [name |-> "7(#9)", noteStr |-> <<"c", "eb", "e", "bb">>],
    [name |-> "sus4", noteStr |-> <<"c", "f", "g">>],
    [name |-> "6add9", noteStr |-> <<"c", "e", "g", "a", "d">>],
    [name |-> "Maj9", noteStr |-> <<"c", "e", "g", "b", "d">>],
    [name |-> "9", noteStr |-> <<"c", "e", "g", "bb", "d">>],
    [name |-> "13", noteStr |-> <<"c", "e", "g", "bb", "d", "a">>],
    [name |-> "13", noteStr |-> <<"c", "e", "g", "bb", "d", "f", "a">>],
    [name |-> "13", noteStr |-> <<"c", "e", "bb", "d", "a">>],
    [name |-> "m6", noteStr |-> <<"c", "eb", "g", "a">>],
    [name |-> "m6add9", noteStr |-> <<"c", "eb", "g", "a", "d">>],
    [name |-> "m6/9", noteStr |-> <<"c", "eb", "a", "d">>],
    [name |-> "m7add13", noteStr |-> <<"c", "eb", "g", "a", "bb">>],
    [name |-> "m9", noteStr |-> <<"c", "eb", "g", "bb", "d">>],
    [name |-> "m11", noteStr |-> <<"c", "eb", "g", "bb", "d", "f">>],
    [name |-> "m11", noteStr |-> <<"c", "eb", "bb", "d", "f">>],
    [name |-> "m13", noteStr |-> <<"c", "eb", "g", "bb", "d", "f", "a">>],
    [name |-> "m9/Maj7", noteStr |-> <<"c", "eb", "g", "b", "d">>],
    [name |-> "m9(b5)", noteStr |-> <<"c", "eb", "gb", "bb", "d">>],
    [name |-> "m11(b5)", noteStr |-> <<"c", "eb", "gb", "bb", "d", "f">>],
    [name |-> "Maj7(#5)", noteStr |-> <<"c", "e", "g#", "b">>],
    [name |-> "Maj7(#11)", noteStr |-> <<"c", "e", "g", "b", "f#">>],
    [name |-> "Maj9(#11)", noteStr |-> <<"c", "e", "g", "b", "d", "f#">>],
    [name |-> "7(b9)", noteStr |-> <<"c", "e", "g", "bb", "db">>],
    [name |-> "7(#9)", noteStr |-> <<"c", "e", "g", "bb", "d#">>],
    [name |-> "7(#5)(#9)", noteStr |-> <<"c", "e", "g#", "bb", "d#">>],
    [name |-> "7(#11)", noteStr |-> <<"c", "e", "g", "bb", "f#">>],
    [name |-> "9(#11)", noteStr |-> <<"c", "e", "g", "bb", "d", "f#">>],
    [name |-> "7(b9)(#11)", noteStr |-> <<"c", "e", "g", "bb", "db", "f#">>],
    [name |-> "13b5", noteStr |-> <<"c", "e", "gb", "bb", "d", "a">>],
    [name |-> "13b5", noteStr |-> <<"c", "e", "gb", "bb", "d", "f", "a">>],
    [name |-> "13b9", noteStr |-> <<"c", "e", "g", "bb", "db", "a">>],
    [name |-> "13b9", noteStr |-> <<"c", "e", "g", "bb", "db", "f", "a">>],
    [name |-> "13#11", noteStr |-> <<"c", "e", "g", "bb", "d", "f#", "a">>],
    [name |-> "7(no3)", noteStr |-> <<"c", "g", "bb">>],
    [name |-> "Maj7(no5)", noteStr |-> <<"c", "e", "b">>]
>>

OnLoadDefinitions == <<
    [name |-> "m(maj9)", noteStr |-> <<"c", "d#", "g", "b", "d">>],
    [name |-> "m7(b9)", noteStr |-> <<"c", "d#", "g", "a#", "c#">>],
    [name |-> "Maj7(#5)", noteStr |-> <<"c", "e", "g#", "b">>]
>>

RECURSIVE DefineAll(_, _)
DefineAll(formulas, definitions) ==
    IF definitions = <<>> THEN formulas
    ELSE DefineAll(defineChord(formulas, Head(definitions).name, Head(definitions).noteStr),
                   Tail(definitions))

\* Module evaluation: the top-level defineChord statements, then the block of
\* lines 240-245, which runs its definitions when the array is still empty.
LoadedFormulas ==
    LET afterTopLevel == DefineAll(<<>>, TopLevelDefinitions)
    IN  IF Len(afterTopLevel) = 0 THEN DefineAll(afterTopLevel, OnLoadDefinitions)
        ELSE afterTopLevel

----------------------------------------------------------------------------
(* Main detection function *)

\* names.join(', ') where an undefined element is rendered as the empty string.
RECURSIVE JoinNames(_)
JoinNames(names) ==
    IF Len(names) = 0 THEN ""
    ELSE IF Len(names) = 1 THEN names[1]
    ELSE names[1] \o ", " \o JoinNames(Tail(names))

\* (useSharps ? SHARP_NOTES[n] : FLAT_NOTES[n]) inside join: "" when undefined.
TableName(n, useSharps) ==
    IF n \in 0..11 THEN NoteTable(useSharps)[n + 1] ELSE ""

\* Mutant of NoteSoup: the spelling flag is not passed on.
NoteSoup_alwaysSharps(bassNote, useSharps) ==
    midiToNoteName(bassNote, TRUE) \o " Note Soup"

\* Line 216.
NoteSoup(bassNote, useSharps) == midiToNoteName(bassNote, useSharps) \o " Note Soup"

\* Mutant of ChordName: the root is compared with the bass pitch instead of
\* the bass pitch class.
ChordName_comparesPitch(formulas, k, stacked, bassNote, useSharps) ==
    LET formula == formulas[k]
        bassNoteClass == JsRem(bassNote, 12)
        symmetric == formula.name = "dim7" \/ formula.name = "+"
        rootNote == IF symmetric THEN bassNoteClass ELSE stacked[formula.rootIndex + 1]
    IN  midiToNoteName(rootNote, useSharps) \o formula.name \o
        (IF rootNote # bassNote THEN "/" \o midiToNoteName(bassNoteClass, useSharps)
         ELSE "")

\* Mutant of ChordName: no root override for the symmetric shapes.
ChordName_withoutOverride(formulas, k, stacked, bassNote, useSharps) ==
    LET formula == formulas[k]
        bassNoteClass == JsRem(bassNote, 12)
        rootNote == stacked[formula.rootIndex + 1]
    IN  midiToNoteName(rootNote, useSharps) \o formula.name \o
        (IF rootNote # bassNoteClass THEN "/" \o midiToNoteName(bassNoteClass, useSharps)
         ELSE "")

\* Lines 223-232: the name composed for the template at 1-based position k.
ChordName(formulas, k, stacked, bassNote, useSharps) ==
    LET formula == formulas[k]
        bassNoteClass == JsRem(bassNote, 12)
        inRange == formula.rootIndex + 1 \in 1..Len(stacked)
        symmetric == formula.name = "dim7" \/ formula.name = "+"
        rootNote == IF symmetric THEN bassNoteClass ELSE stacked[formula.rootIndex + 1]
        rootName == IF symmetric \/ inRange THEN midiToNoteName(rootNote, useSharps)
                    ELSE "undefined"
        differs == IF symmetric \/ inRange THEN rootNote # bassNoteClass ELSE TRUE
    IN  rootName \o formula.name \o
        (IF differs THEN "/" \o midiToNoteName(bassNoteClass, useSharps) ELSE "")

\* Mutant of TooManyClasses: the guard lets nine pitch classes through.
TooManyClasses_offByOne(classes) == Len(classes) > 9

\* Line 215: noteClasses.length >= 9.
TooManyClasses(classes) == Len(classes) >= 9

\* Mutant of FallbackLabel: the names are listed in reverse.
FallbackLabel_reversed(classes, useSharps) ==
    "(" \o JoinNames([i \in 1..Len(classes) |->
                         TableName(classes[Len(classes) + 1 - i], useSharps)]) \o ")"

\* Line 236: the names of noteClasses, in noteClasses' order.
FallbackLabel(classes, useSharps) ==
    "(" \o JoinNames([i \in 1..Len(classes) |-> TableName(classes[i], useSharps)]) \o ")"

NoLocals == [noteClasses |-> <<>>, stackedChord |-> <<>>, formulaIndex |-> 0,
             searchRuns |-> 0, scanRuns |-> 0]

\* Mutant of EmptyInput: only the absent argument is caught.
EmptyInput_absentOnly(notesArg) == ~notesArg.present

\* Line 197: !notes || notes.length === 0.
EmptyInput(notesArg) == ~notesArg.present \/ Len(notesArg.list) = 0

\* Sorts an array of identifiers by parsed pitch (insertion sort, stable).
RECURSIVE ByPitch(_)
ByPitch(list) ==
    IF list = <<>> THEN <<>>
    ELSE LET x == list[Len(list)]
             rest == ByPitch(SubSeq(list, 1, Len(list) - 1))
         IN  SelectSeq(rest, LAMBDA y : noteToMidi(y) <= noteToMidi(x)) \o <<x>>
             \o SelectSeq(rest, LAMBDA y : noteToMidi(y) > noteToMidi(x))

\* Mutant of SortedPitches: the caller's array is sorted in place before it
\* is mapped.
SortedPitches_inPlace(list) ==
    [midiNotes |-> [i \in 1..Len(list) |-> noteToMidi(ByPitch(list)[i])],
     notes |-> ByPitch(list)]

\* Line 201: notes.map(noteToMidi).sort((a, b) => a - b).  map() builds a new
\* array and sort() orders that new array in place; `notes` is what the
\* caller's array holds after the statement.
SortedPitches(list) ==
    [midiNotes |-> SortAsc([i \in 1..Len(list) |-> noteToMidi(list[i])]),
     notes |-> list]

\* Lines 219-236 of detectChord: the database scan on the completed stacking,
\* then the fallback label.
ScanFormulas(formulas, classes, completion, bassNote, useSharps, after) ==
    LET stacked == completion.chord
        pattern == JoinComma(getIntervalPattern(stacked))
        hits == {k \in 1..Len(formulas) : formulas[k].pattern = pattern}
    IN  IF completion.threw
        THEN [outcome |-> "throw", result |-> "", branch |-> "search",
              noteClasses |-> classes, searchRuns |-> 1] @@ NoLocals @@ after
        ELSE IF hits # {}
        THEN LET k == CHOOSE h \in hits : \A g \in hits : h <= g
             IN  [outcome |-> "string",
                  result |-> ChordName(formulas, k, stacked, bassNote, useSharps),
                  branch |-> "match", noteClasses |-> classes,
                  stackedChord |-> stacked, formulaIndex |-> k,
                  searchRuns |-> 1, scanRuns |-> 1] @@ after
        ELSE [outcome |-> "string",
              result |-> FallbackLabel(classes, useSharps),
              branch |-> "fallback", noteClasses |-> classes,
              stackedChord |-> stacked, formulaIndex |-> 0,
              searchRuns |-> 1, scanRuns |-> 1] @@ after

\* Lines 215-218 of detectChord: the note-soup guard on the distinct pitch
\* classes, then the stacking search.
ResolveClasses(formulas, classes, bassNote, useSharps, after) ==
    IF TooManyClasses(classes)
    THEN [outcome |-> "string", result |-> NoteSoup(bassNote, useSharps),
          branch |-> "soup", noteClasses |-> classes] @@ NoLocals @@ after
    ELSE ScanFormulas(formulas, classes, getAsStackedChord(classes), bassNote,
                      useSharps, after)

\* Lines 202-214 of detectChord on the sorted pitches: the single-note and
\* two-note answers, then the pitch classes in order of first occurrence.
NameSorted(formulas, midiNotes, useSharps, after) ==
    IF Len(midiNotes) = 1
    THEN [outcome |-> "string", result |-> midiToNoteName(midiNotes[1], useSharps),
          branch |-> "single"] @@ NoLocals @@ after
    ELSE IF Len(midiNotes) = 2
    THEN LET found == getIntervalName(midiNotes[2] - midiNotes[1])
             name == IF found.found THEN found.name ELSE "Interval"
         IN  [outcome |-> "string",
              result |-> name \o " (" \o midiToNoteName(midiNotes[1], useSharps)
                         \o ", " \o midiToNoteName(midiNotes[2], useSharps) \o ")",
              branch |-> "interval"] @@ NoLocals @@ after
    ELSE ResolveClasses(formulas,
                        Dedupe([i \in 1..Len(midiNotes) |-> JsRem(midiNotes[i], 12)]),
                        midiNotes[1], useSharps, after)

\* The caller's argument as line 201 leaves it.
ArgumentAfter(sorted) == [argument |-> [present |-> TRUE, list |-> sorted.notes]]

\* Lines 201-236: the steps of detectChord after the empty-input guard.
DetectSorted(formulas, sorted, useSharps) ==
    NameSorted(formulas, sorted.midiNotes, useSharps, ArgumentAfter(sorted))

\* detectChord(notes, opts) against the template array `formulas`.  The record
\* holds the return value, the locals the call computed on its way and the
\* caller's argument as the call leaves it.
detectChord(formulas, notesArg, flats) ==
    IF EmptyInput(notesArg)
    THEN [outcome |-> "null", result |-> "", branch |-> "empty"] @@ NoLocals
         @@ [argument |-> notesArg]
    ELSE DetectSorted(formulas, SortedPitches(notesArg.list), ~flats)

----------------------------------------------------------------------------
(* Inputs *)

MaxPitchClasses == 4
MaxNotes == 3
BaseOctave == 4

PitchClasses == 0..11

SharpChars == <<<<"C">>, <<"C", "#">>, <<"D">>, <<"D", "#">>, <<"E">>, <<"F">>,
                <<"F", "#">>, <<"G">>, <<"G", "#">>, <<"A">>, <<"A", "#">>, <<"B">>>>

\* The identifier the piano hook builds for pitch class p in octave o.
Ident(p, o) == SharpChars[p + 1] \o <<DigitChars[o + 1]>>

\* The elements of a set of integers in ascending order.
RECURSIVE Ascending(_)
Ascending(S) ==
    IF S = {} THEN <<>>
    ELSE LET m == CHOOSE x \in S : \A y \in S : x <= y
         IN  <<m>> \o Ascending(S \ {m})

\* A voicing of the pitch-class set S with b lowest, listed with the bass last:
\* b one octave below the rest; the rest ascending in one octave (close), or
\* alternating between two octaves (open).
Voicing(S, b, open) ==
    LET rest == Ascending(S \ {b})
        octaveOf(i) == IF open /\ i % 2 = 0 THEN BaseOctave + 1 ELSE BaseOctave
    IN  [i \in 1..Len(rest) |-> Ident(rest[i], octaveOf(i))] \o <<Ident(b, BaseOctave - 1)>>

VoicedInputs ==
    {Voicing(v[1], v[2], v[3]) : v \in
        {w \in (SUBSET PitchClasses) \X PitchClasses \X BOOLEAN :
            /\ w[2] \in w[1]
            /\ \/ Cardinality(w[1]) <= MaxPitchClasses
               \/ Cardinality(w[1]) >= 9 /\ ~w[3]}}

\* Arbitrary short lists over a few identifiers, well-formed or not.
Alphabet == {Ident(0, BaseOctave), Ident(4, BaseOctave), Ident(8, BaseOctave),
             Ident(0, BaseOctave + 1), Ident(4, BaseOctave + 1),
             <<"E", "b", "4">>, <<"C">>}

ListInputs == UNION {[1..n -> Alphabet] : n \in 0..MaxNotes}

\* Pitch class of each note name the definitions use (C = 0 ... B = 11).
TokenClass ==
    ("c" :> 0) @@ ("c#" :> 1) @@ ("db" :> 1) @@ ("d" :> 2) @@ ("d#" :> 3) @@
    ("eb" :> 3) @@ ("e" :> 4) @@ ("f" :> 5) @@ ("f#" :> 6) @@ ("gb" :> 6) @@
    ("g" :> 7) @@ ("g#" :> 8) @@ ("a" :> 9) @@ ("a#" :> 10) @@ ("bb" :> 10) @@
    ("b" :> 11)

\* The notes of a template definition, in one octave, lowest first.
DefinitionNotes(d) ==
    LET asc == Ascending({TokenClass[d.noteStr[i]] : i \in 1..Len(d.noteStr)})
    IN  [i \in 1..Len(asc) |-> Ident(asc[i], BaseOctave)]

DefinitionInputs == {DefinitionNotes(TopLevelDefinitions[i]) : i \in 1..Len(TopLevelDefinitions)}

ExampleInputs ==
    { <<<<"C", "4">>, <<"E", "b", "4">>, <<"G", "4">>, <<"B", "b", "4">>>>,
      <<<<"C", "4">>, <<"D", "#", "4">>, <<"G", "4">>, <<"A", "#", "4">>>>,
      <<<<"E", "4">>, <<"G", "4">>, <<"C", "5">>>>,
      <<<<"C", "4">>, <<"E", "4">>, <<"G", "4">>>>,
      <<<<"B", "9">>, <<"C", "0">>>>,
      <<<<"E", "#", "4">>>>,
      <<<<"B", "#", "3">>, <<"E", "4">>, <<"G", "4">>>> }

Inputs ==
    {[present |-> TRUE, list |-> l] :
        l \in VoicedInputs \cup ListInputs \cup DefinitionInputs \cup ExampleInputs}
    \cup {[present |-> FALSE, list |-> <<>>]}

----------------------------------------------------------------------------
(* The piano hook (usePiano): note bookkeeping around detectChord *)

NoNote == <<>>

\* Number -> decimal string with sign, as characters (template literal).
IntChars(n) == IF n < 0 THEN <<"-">> \o NumChars(-n) ELSE NumChars(n)

\* nameToMidi: /^([A-G]#?)(\d)$/, -1 when the identifier does not match.
nameToMidi(note) ==
    LET n == Len(note)
        matches == /\ n \in {2, 3}
                   /\ note[1] \in Letters
                   /\ (n = 3 => note[2] = "#")
                   /\ \E d \in 1..10 : DigitChars[d] = note[n]
    IN  IF ~matches THEN -1
        ELSE LET name == IF n = 3 THEN note[1] \o "#" ELSE note[1]
                 oct == IndexOf(DigitChars, note[n])
                 idx == IndexOf(SHARP_NOTES, name)
             IN  12 * (oct + 1) + idx

\* midiToName: `${NOTE_NAMES[pc]}${Math.floor(midi / 12) - 1}`.
midiToName(midi) ==
    LET pitch == JsRem(JsRem(midi, 12) + 12, 12)
        oct == (midi \div 12) - 1
    IN  SharpChars[pitch + 1] \o IntChars(oct)

transposeNote(note, semis) == midiToName(nameToMidi(note) + semis)

\* The keyboard map and the octave range come from the constants module.
OCTAVE_RANGE == <<1, 8>>
KEY_CODE_TO_NOTE_MAP ==
    [KeyA |-> [note |-> <<"C">>, octaveOffset |-> 0],
     KeyK |-> [note |-> <<"C">>, octaveOffset |-> 1]]
NoteKeyCodes == DOMAIN KEY_CODE_TO_NOTE_MAP
KeyCodes == NoteKeyCodes \cup {"Space", "KeyZ", "KeyX"}
\* The codes whose keyup handleKeyUp acts on.
ReleasedKeyCodes == NoteKeyCodes \cup {"Space"}

\* What the environment offers: MIDI note numbers, on-screen keys, and how
\* far the settings are moved from their initial values.
InitialOctave == 4
MidiNumbers == {0, 60}
MouseKeys == {Ident(0, InitialOctave)}
MaxHeld == 2
MaxActive == 2
MaxOctaveShift == 1
MaxTranspose == 1
MaxSettingChanges == 2

\* The refs and the note set the handlers work on, as one value.
Refs == [active |-> activeNotes, held |-> heldEffective,
         sustained |-> sustainedNotes, sustainDown |-> sustainDown]

\* new Set(prev.add(x)): insertion order, no duplicates.
SetAdd(seq, x) == IF \E i \in 1..Len(seq) : seq[i] = x THEN seq ELSE Append(seq, x)
\* next.delete(x)
SetDelete(seq, x) == SelectSeq(seq, LAMBDA y : y # x)

\* Lines 465-474.
releaseEffective(h, effective) ==
    [h EXCEPT !.active = SetDelete(h.active, effective)]

\* Lines 502-527, with a sampler present.
internalPlay(h, note, applyTranspose, semis) ==
    LET effective == IF applyTranspose THEN transposeNote(note, semis) ELSE note
    IN  [h EXCEPT !.active = SetAdd(h.active, effective),
                  !.held = h.held \cup {effective}]

\* Lines 529-544.
internalStop(h, note, applyTranspose, semis) ==
    LET effective == IF applyTranspose THEN transposeNote(note, semis) ELSE note
        h1 == [h EXCEPT !.held = h.held \ {effective}]
    IN  IF h1.sustainDown THEN [h1 EXCEPT !.sustained = h1.sustained \cup {effective}]
        ELSE IF effective \in h1.sustained THEN h1
        ELSE releaseEffective(h1, effective)

\* Lines 553-557 and 664-668: pedal pressed.
pedalDown(h) ==
    [h EXCEPT !.sustainDown = TRUE, !.sustained = h.sustained \cup h.held]

\* Lines 592-602 and 670-678: pedal lifted.
pedalUp(h) ==
    LET toRelease == h.sustained \ h.held
    IN  [h EXCEPT !.sustainDown = FALSE,
                  !.active = SelectSeq(h.active, LAMBDA y : y \notin toRelease),
                  !.sustained = {}]

HeldInputs ==
    Cardinality(keysDown \cap NoteKeyCodes) + Cardinality(midiOn)
    + (IF pointerNote = NoNote THEN 0 ELSE 1)

\* The player changes a setting at most MaxSettingChanges times.
ChangeSetting ==
    /\ settingChanges < MaxSettingChanges
    /\ settingChanges' = settingChanges + 1

\* The player holds at most MaxHeld keys, buttons and MIDI notes at a time
\* (pedals apart) and lets at most MaxActive notes sound together.
MayPress == HeldInputs < MaxHeld /\ Len(activeNotes) < MaxActive

\* Lines 475-480: the effect that hands the note list to detectChord; it runs
\* after the first render and whenever activeNotes or useFlats changed.
DetectEffect(list, flats) ==
    /\ notes' = [present |-> TRUE, list |-> list]
    /\ \E r \in {detectChord(CHORD_FORMULAS, [present |-> TRUE, list |-> list], flats)} :
           /\ outcome' = r.outcome
           /\ result' = r.result
           /\ branch' = r.branch
           /\ noteClasses' = r.noteClasses
           /\ stackedChord' = r.stackedChord
           /\ formulaIndex' = r.formulaIndex
           /\ searchRuns' = r.searchRuns
           /\ scanRuns' = r.scanRuns

\* A render of the mounted hook with the state a handler left, and its effect.
Render(h, flats) ==
    /\ pc = "returned"
    /\ activeNotes' = h.active
    /\ heldEffective' = h.held
    /\ sustainedNotes' = h.sustained
    /\ sustainDown' = h.sustainDown
    /\ useFlats' = flats
    /\ DetectEffect(h.active, flats)
    /\ UNCHANGED <<pc, CHORD_FORMULAS, calls, firstCall>>

\* The hook's own state after mounting, before any event.
HookIdle ==
    /\ started = FALSE
    /\ isLoaded = FALSE
    /\ activeNotes = <<>>
    /\ octave = InitialOctave
    /\ transpose = 0
    /\ sustainDown = FALSE
    /\ sustainedNotes = {}
    /\ heldEffective = {}
    /\ currentlyPlayingNotes = [c \in NoteKeyCodes |-> NoNote]
    /\ midiPlayingNotes = [m \in MidiNumbers |-> NoNote]
    /\ midiClosures = <<>>
    /\ keysDown = {}
    /\ pointerNote = NoNote
    /\ midiOn = {}
    /\ midiPedal = FALSE
    /\ settingChanges = 0
    /\ keySounds = [c \in NoteKeyCodes |-> NoNote]
    /\ midiSounds = [m \in MidiNumbers |-> NoNote]

----------------------------------------------------------------------------
(* The program *)

NoCall == [notes |-> [present |-> FALSE, list |-> <<>>], useFlats |-> FALSE,
           outcome |-> "none", result |-> ""]

\* Before the module is evaluated: the caller's flag is chosen, nothing has
\* been computed.
Unloaded ==
    /\ pc = "load"
    /\ CHORD_FORMULAS = <<>>
    /\ useFlats \in BOOLEAN
    /\ outcome = "none"
    /\ result = ""
    /\ branch = "none"
    /\ noteClasses = <<>>
    /\ stackedChord = <<>>
    /\ formulaIndex = 0
    /\ searchRuns = 0
    /\ scanRuns = 0
    /\ calls = 0
    /\ firstCall = NoCall
    /\ HookIdle

Init == notes \in Inputs /\ Unloaded

\* Evaluation of the module: every top-level statement, in order.
ModuleLoad ==
    /\ pc = "load"
    /\ pc' = "ready"
    /\ CHORD_FORMULAS' = LoadedFormulas
    /\ UNCHANGED <<notes, useFlats, outcome, result, branch, noteClasses,
                   stackedChord, formulaIndex, searchRuns, scanRuns,
                   calls, firstCall>>
    /\ UNCHANGED hookVars

\* The piano hook's call detectChord(notes, { useFlats }).
DetectChord ==
    /\ pc = "ready"
    /\ \E r \in {detectChord(CHORD_FORMULAS, notes, useFlats)} :
           /\ outcome' = r.outcome
           /\ result' = r.result
           /\ branch' = r.branch
           /\ noteClasses' = r.noteClasses
           /\ stackedChord' = r.stackedChord
           /\ formulaIndex' = r.formulaIndex
           /\ searchRuns' = r.searchRuns
           /\ scanRuns' = r.scanRuns
           /\ notes' = r.argument
           /\ firstCall' = IF calls = 0
                           THEN [notes |-> notes, useFlats |-> useFlats,
                                 outcome |-> r.outcome, result |-> r.result]
                           ELSE firstCall
    /\ calls' = calls + 1
    /\ pc' = "returned"
    /\ UNCHANGED <<CHORD_FORMULAS, useFlats>>
    /\ UNCHANGED hookVars

Next == ModuleLoad \/ DetectChord

Spec == Init /\ [][Next]_vars

\* A caller that calls detectChord repeatedly, each time with an argument
\* and a flag of its choice.
MaxCalls == 3

CallInputs ==
    {[present |-> TRUE, list |-> l] : l \in
        {<<>>,
         <<Ident(7, BaseOctave), Ident(0, BaseOctave)>>,
         <<Ident(7, BaseOctave), Ident(4, BaseOctave), Ident(0, BaseOctave)>>,
         <<Ident(0, BaseOctave + 1), Ident(8, BaseOctave), Ident(4, BaseOctave)>>,
         <<Ident(2, BaseOctave), Ident(1, BaseOctave), Ident(0, BaseOctave)>>,
         <<Ident(7, BaseOctave), <<"E", "b", "4">>, Ident(0, BaseOctave)>>}}
    \cup {[present |-> FALSE, list |-> <<>>]}

CallsInit == notes \in CallInputs /\ Unloaded

CallAgain ==
    /\ pc = "returned"
    /\ calls < MaxCalls
    /\ pc' = "ready"
    /\ notes' \in CallInputs
    /\ useFlats' \in BOOLEAN
    /\ UNCHANGED <<CHORD_FORMULAS, outcome, result, branch, noteClasses,
                   stackedChord, formulaIndex, searchRuns, scanRuns,
                   calls, firstCall>>
    /\ UNCHANGED hookVars

CallsNext == ModuleLoad \/ DetectChord \/ CallAgain

CallsSpec == CallsInit /\ [][CallsNext]_vars

----------------------------------------------------------------------------
(* The piano hook: events *)

\* The page before the detector module is evaluated and the hook is mounted:
\* the hook's initial state values (lines 284-297), sharp spelling selected.
HookInit ==
    /\ notes = [present |-> TRUE, list |-> <<>>]
    /\ useFlats = FALSE
    /\ Unloaded

\* The first render of the hook (lines 283-297) and its first effect run,
\* after the import of the detector module.
Mount ==
    /\ pc = "ready"
    /\ pc' = "returned"
    /\ DetectEffect(activeNotes, useFlats)
    /\ UNCHANGED <<CHORD_FORMULAS, useFlats, calls, firstCall>>
    /\ UNCHANGED hookVars

\* startAudioContext (lines 482-500), the sampler effect (lines 340-362) and
\* the MIDI effect, which binds onMessage with the values of this render.
StartAudio ==
    /\ ~started
    /\ started' = TRUE
    /\ midiClosures' = <<transpose>>
    /\ Render(Refs, useFlats)
    /\ UNCHANGED <<settingChanges, isLoaded, octave, transpose, currentlyPlayingNotes,
                   midiPlayingNotes, keysDown, pointerNote, midiOn, midiPedal>>
    /\ UNCHANGED <<keySounds, midiSounds>>

\* The sampler's onload callback (line 354).
SamplerLoaded ==
    /\ started /\ ~isLoaded
    /\ isLoaded' = TRUE
    /\ Render(Refs, useFlats)
    /\ UNCHANGED <<settingChanges, started, octave, transpose, currentlyPlayingNotes,
                   midiPlayingNotes, midiClosures, keysDown, pointerNote,
                   midiOn, midiPedal>>
    /\ UNCHANGED <<keySounds, midiSounds>>

\* handleKeyDown (lines 546-587) for a key that was up.
KeyDown(code) ==
    /\ code \notin keysDown
    /\ code \in NoteKeyCodes => MayPress
    /\ keysDown' = (IF code \in ReleasedKeyCodes THEN keysDown \cup {code} ELSE keysDown)
    /\ UNCHANGED <<started, isLoaded, transpose, midiPlayingNotes, midiClosures, midiSounds,
                   pointerNote, midiOn, midiPedal>>
    /\ IF ~started \/ ~isLoaded
       THEN /\ Render(Refs, useFlats)
            /\ UNCHANGED <<octave, currentlyPlayingNotes, settingChanges, keySounds>>
       ELSE IF code = "Space"
       THEN /\ Render(pedalDown(Refs), useFlats)
            /\ UNCHANGED <<octave, currentlyPlayingNotes, settingChanges, keySounds>>
       ELSE IF code = "KeyZ"
       THEN /\ octave' = (IF octave - 1 < OCTAVE_RANGE[1] THEN OCTAVE_RANGE[1] ELSE octave - 1)
            /\ octave' >= InitialOctave
            /\ ChangeSetting
            /\ Render(Refs, useFlats)
            /\ UNCHANGED <<currentlyPlayingNotes, keySounds>>
       ELSE IF code = "KeyX"
       THEN /\ octave' = (IF octave + 1 > OCTAVE_RANGE[2] THEN OCTAVE_RANGE[2] ELSE octave + 1)
            /\ octave' <= InitialOctave + MaxOctaveShift
            /\ ChangeSetting
            /\ Render(Refs, useFlats)
            /\ UNCHANGED <<currentlyPlayingNotes, keySounds>>
       ELSE LET keyMap == KEY_CODE_TO_NOTE_MAP[code]
                targetOctave == octave + keyMap.octaveOffset
                note == keyMap.note \o IntChars(targetOctave)
            IN  IF currentlyPlayingNotes[code] # NoNote
                   \/ targetOctave < OCTAVE_RANGE[1] \/ targetOctave > OCTAVE_RANGE[2]
                THEN /\ Render(Refs, useFlats)
                     /\ UNCHANGED <<octave, currentlyPlayingNotes, settingChanges, keySounds>>
                ELSE /\ Render(internalPlay(Refs, note, TRUE, transpose), useFlats)
                     /\ currentlyPlayingNotes' = [currentlyPlayingNotes EXCEPT ![code] = note]
                     /\ keySounds' = [keySounds EXCEPT
                                         ![code] = transposeNote(note, transpose)]
                     /\ UNCHANGED <<octave, settingChanges>>

\* handleKeyUp (lines 589-611) for a key that was down.
KeyUp(code) ==
    /\ code \in keysDown
    /\ keysDown' = keysDown \ {code}
    /\ UNCHANGED <<settingChanges, started, isLoaded, octave, transpose, midiPlayingNotes,
                   midiClosures, pointerNote, midiOn, midiPedal>>
    /\ IF code = "Space"
       THEN /\ Render(pedalUp(Refs), useFlats)
            /\ UNCHANGED currentlyPlayingNotes
       ELSE IF code \in NoteKeyCodes /\ currentlyPlayingNotes[code] # NoNote
       THEN /\ Render(internalStop(Refs, currentlyPlayingNotes[code], TRUE, transpose),
                      useFlats)
            /\ currentlyPlayingNotes' = [currentlyPlayingNotes EXCEPT ![code] = NoNote]
       ELSE /\ Render(Refs, useFlats)
            /\ UNCHANGED currentlyPlayingNotes
    /\ keySounds' = (IF code \in NoteKeyCodes
                     THEN [keySounds EXCEPT ![code] = NoNote] ELSE keySounds)
    /\ UNCHANGED midiSounds

\* playMouseNote (line 737) from onPointerDown on an on-screen key.
MouseDown(note) ==
    /\ isLoaded
    /\ pointerNote = NoNote
    /\ MayPress
    /\ pointerNote' = note
    /\ Render(internalPlay(Refs, note, FALSE, transpose), useFlats)
    /\ UNCHANGED <<settingChanges, started, isLoaded, octave, transpose, currentlyPlayingNotes,
                   midiPlayingNotes, midiClosures, keysDown, midiOn, midiPedal>>
    /\ UNCHANGED <<keySounds, midiSounds>>

\* stopMouseNote (line 738) from onPointerUp on the pressed key.
MouseUp ==
    /\ isLoaded
    /\ pointerNote # NoNote
    /\ pointerNote' = NoNote
    /\ Render(internalStop(Refs, pointerNote, FALSE, transpose), useFlats)
    /\ UNCHANGED <<settingChanges, started, isLoaded, octave, transpose, currentlyPlayingNotes,
                   midiPlayingNotes, midiClosures, keysDown, midiOn, midiPedal>>
    /\ UNCHANGED <<keySounds, midiSounds>>

\* stopMouseNote from onPointerLeave of a key the pointer only hovered over.
MouseLeave(note) ==
    /\ isLoaded
    /\ pointerNote = NoNote
    /\ Render(internalStop(Refs, note, FALSE, transpose), useFlats)
    /\ UNCHANGED <<settingChanges, started, isLoaded, octave, transpose, currentlyPlayingNotes,
                   midiPlayingNotes, midiClosures, keysDown, pointerNote, midiOn,
                   midiPedal>>
    /\ UNCHANGED <<keySounds, midiSounds>>

\* A MIDI message reaches every onMessage still attached to the input: the
\* cleanup of the MIDI effect (lines 704-712) clears onmidimessage before it
\* calls removeEventListener with it, so earlier listeners stay attached.
\* Each runs with the transpose of the render that bound it.
RECURSIVE PlayAll(_, _, _)
PlayAll(h, baseName, closures) ==
    IF closures = <<>> THEN h
    ELSE PlayAll(internalPlay(h, baseName, TRUE, Head(closures)), baseName, Tail(closures))
RECURSIVE StopAll(_, _, _)
StopAll(h, baseName, closures) ==
    IF closures = <<>> THEN h
    ELSE StopAll(internalStop(h, baseName, TRUE, Head(closures)), baseName, Tail(closures))

\* onMessage, Note On with velocity > 0 (lines 640-651).
MidiNoteOn(noteNum) ==
    /\ started
    /\ noteNum \notin midiOn
    /\ MayPress
    /\ midiOn' = midiOn \cup {noteNum}
    /\ midiPlayingNotes' = [midiPlayingNotes EXCEPT ![noteNum] = midiToName(noteNum)]
    /\ Render(PlayAll(Refs, midiToName(noteNum), midiClosures), useFlats)
    /\ UNCHANGED <<settingChanges, started, isLoaded, octave, transpose, currentlyPlayingNotes,
                   midiClosures, keysDown, pointerNote, midiPedal>>
    /\ midiSounds' = [midiSounds EXCEPT
                          ![noteNum] = transposeNote(midiToName(noteNum), transpose)]
    /\ UNCHANGED keySounds

\* onMessage, Note Off or Note On with velocity 0 (lines 631-637, 652-656).
MidiNoteOff(noteNum) ==
    /\ started
    /\ noteNum \in midiOn
    /\ midiOn' = midiOn \ {noteNum}
    /\ midiPlayingNotes' = [midiPlayingNotes EXCEPT ![noteNum] = NoNote]
    /\ LET baseName == IF midiPlayingNotes[noteNum] # NoNote
                       THEN midiPlayingNotes[noteNum] ELSE midiToName(noteNum)
       IN  Render(StopAll(Refs, baseName, midiClosures), useFlats)
    /\ UNCHANGED <<settingChanges, started, isLoaded, octave, transpose, currentlyPlayingNotes,
                   midiClosures, keysDown, pointerNote, midiPedal>>
    /\ midiSounds' = [midiSounds EXCEPT ![noteNum] = NoNote]
    /\ UNCHANGED keySounds

\* onMessage, Control Change 64 (lines 661-681).
MidiPedal ==
    /\ started
    /\ midiPedal' = ~midiPedal
    /\ Render(IF midiPedal THEN pedalUp(Refs) ELSE pedalDown(Refs), useFlats)
    /\ UNCHANGED <<settingChanges, started, isLoaded, octave, transpose, currentlyPlayingNotes,
                   midiPlayingNotes, midiClosures, keysDown, pointerNote, midiOn>>
    /\ UNCHANGED <<keySounds, midiSounds>>

\* The transpose buttons (App, lines 198 and 200); the MIDI effect then binds
\* a new onMessage.
SetTranspose(step) ==
    /\ ChangeSetting
    /\ transpose' = (IF transpose + step > 12 THEN 12
                     ELSE IF transpose + step < -12 THEN -12 ELSE transpose + step)
    /\ transpose' \in 0..MaxTranspose
    /\ midiClosures' = IF started THEN SetAdd(midiClosures, transpose') ELSE midiClosures
    /\ Render(Refs, useFlats)
    /\ UNCHANGED <<started, isLoaded, octave, currentlyPlayingNotes,
                   midiPlayingNotes, keysDown, pointerNote, midiOn, midiPedal>>
    /\ UNCHANGED <<keySounds, midiSounds>>

\* The octave buttons (App, lines 164 and 166).
SetOctave(step) ==
    /\ ChangeSetting
    /\ octave' = (IF octave + step > 8 THEN 8
                  ELSE IF octave + step < 1 THEN 1 ELSE octave + step)
    /\ octave' \in InitialOctave..(InitialOctave + MaxOctaveShift)
    /\ Render(Refs, useFlats)
    /\ UNCHANGED <<started, isLoaded, transpose, currentlyPlayingNotes,
                   midiPlayingNotes, midiClosures, keysDown, pointerNote, midiOn,
                   midiPedal>>
    /\ UNCHANGED <<keySounds, midiSounds>>

\* setUseFlats from the settings.
ToggleFlats ==
    /\ ChangeSetting
    /\ Render(Refs, ~useFlats)
    /\ UNCHANGED <<started, isLoaded, octave, transpose, currentlyPlayingNotes,
                   midiPlayingNotes, midiClosures, keysDown, pointerNote, midiOn,
                   midiPedal>>
    /\ UNCHANGED <<keySounds, midiSounds>>

HookNext ==
    \/ ModuleLoad
    \/ Mount
    \/ StartAudio
    \/ SamplerLoaded
    \/ \E code \in KeyCodes : KeyDown(code)
    \/ \E code \in KeyCodes : KeyUp(code)
    \/ \E note \in MouseKeys : MouseDown(note)
    \/ MouseUp
    \/ \E note \in MouseKeys : MouseLeave(note)
    \/ \E noteNum \in MidiNumbers : MidiNoteOn(noteNum)
    \/ \E noteNum \in MidiNumbers : MidiNoteOff(noteNum)
    \/ MidiPedal
    \/ \E step \in {-1, 1} : SetTranspose(step)
    \/ \E step \in {-1, 1} : SetOctave(step)
    \/ ToggleFlats

HookSpec == HookInit /\ [][HookNext]_vars


----------------------------------------------------------------------------
(* Vocabulary of the properties, stated without the code's own helpers *)

Octaves == 0..9

\* A note identifier: one of the twelve sharp-spelled names, then one digit.
WellFormed(id) ==
    /\ Len(id) \in {2, 3}
    /\ \E p \in PitchClasses : SubSeq(id, 1, Len(id) - 1) = SharpChars[p + 1]
    /\ \E o \in Octaves : id[Len(id)] = DigitChars[o + 1]

\* The note format: a letter A-G, an optional #, one octave digit 0-9.
NoteFormat(id) ==
    /\ Len(id) \in {2, 3}
    /\ id[1] \in {"A", "B", "C", "D", "E", "F", "G"}
    /\ (Len(id) = 3 => id[2] = "#")
    /\ \E o \in Octaves : id[Len(id)] = DigitChars[o + 1]

PitchClassOf(id) ==
    CHOOSE p \in PitchClasses : SubSeq(id, 1, Len(id) - 1) = SharpChars[p + 1]
OctaveOf(id) == CHOOSE o \in Octaves : id[Len(id)] = DigitChars[o + 1]
HeightOf(id) == 12 * OctaveOf(id) + PitchClassOf(id)

AllWellFormed(list) == \A i \in 1..Len(list) : WellFormed(list[i])

\* Pitch class of the lowest-sounding note of a list of well-formed notes.
LowestClass(list) ==
    LET i == CHOOSE k \in 1..Len(list) :
                 \A j \in 1..Len(list) : HeightOf(list[k]) <= HeightOf(list[j])
    IN  PitchClassOf(list[i])

SoundedClasses(list) == {PitchClassOf(list[i]) : i \in 1..Len(list)}

ClassName(p, flats) == IF flats THEN FLAT_NOTES[p + 1] ELSE SHARP_NOTES[p + 1]

Range(seq) == {seq[i] : i \in 1..Len(seq)}

\* Every ordering of a finite set, each once.
RECURSIVE Orderings(_)
Orderings(S) ==
    IF S = {} THEN {<<>>}
    ELSE UNION {{<<x>> \o q : q \in Orderings(S \ {x})} : x \in S}

\* Sum of the forward (wrap-around) distances between neighbours.
RECURSIVE ForwardEnergy(_)
ForwardEnergy(q) ==
    IF Len(q) < 2 THEN 0
    ELSE ((q[2] - q[1]) % 12) + ForwardEnergy(Tail(q))

Returned == pc = "returned"

----------------------------------------------------------------------------
(* Properties *)

\* C1: round trip -- for every template of the database, detectChord on the
\* template's own defining notes (one octave, the stated root C lowest)
\* returns a root name followed by exactly that template's display name.
C1_RoundTrip ==
    \A i \in 1..Len(CHORD_FORMULAS) :
        (Returned /\ notes.present /\ notes.list = DefinitionNotes(TopLevelDefinitions[i]))
        => \E root \in Range(SHARP_NOTES) \cup Range(FLAT_NOTES) :
               result = root \o CHORD_FORMULAS[i].name

\* C2: for a nonempty set of distinct pitch classes, getAsStackedChord returns
\* a permutation of exactly that set whose energy is at most the energy of
\* every permutation of the set.
C2_StackedIsMinimalPermutation ==
    (Returned /\ searchRuns = 1 /\ Range(noteClasses) \subseteq PitchClasses)
    => /\ Len(stackedChord) = Len(noteClasses)
       /\ Range(stackedChord) = Range(noteClasses)
       /\ Cardinality(Range(stackedChord)) = Len(stackedChord)
       /\ \A q \in Orderings(Range(noteClasses)) :
              ForwardEnergy(stackedChord) <= ForwardEnergy(q)

\* C2 witness: a search over four pitch classes that had to reorder its input
\* and that some ordering of the set strictly loses.
C2_Witness ==
    /\ Returned /\ searchRuns = 1 /\ Len(noteClasses) = 4
    /\ Range(noteClasses) \subseteq PitchClasses
    /\ stackedChord # noteClasses
    /\ \E q \in Orderings(Range(noteClasses)) :
           ForwardEnergy(stackedChord) < ForwardEnergy(q)

\* C3: the canonical ordering is a function of the set of pitch classes alone
\* -- every array holding the same pitch classes, in whatever order, gets the
\* ordering this call got.
C3_OrderingDependsOnSetAlone ==
    (Returned /\ searchRuns = 1 /\ Range(noteClasses) \subseteq PitchClasses)
    => \A q \in Orderings(Range(noteClasses)) : getAsStackedChord(q).chord = stackedChord

\* C4: no two templates of the built database have the same interval pattern.
C4_DistinctPatterns ==
    pc # "load"
    => \A i, j \in 1..Len(CHORD_FORMULAS) :
           i < j => CHORD_FORMULAS[i].pattern # CHORD_FORMULAS[j].pattern

\* C5: when three or more notes match a template other than dim7 or +, the
\* root is the canonical ordering's element at the template's rootIndex, the
\* result is rootName + displayName, with "/" + bassName appended exactly when
\* the root differs from the pitch class of the lowest note; the C major triad
\* gives "C" with C lowest and "C/E" with E lowest.
C5_MatchedName ==
    /\ (Returned /\ branch = "match" /\ AllWellFormed(notes.list)
        /\ CHORD_FORMULAS[formulaIndex].name \notin {"dim7", "+"})
       => LET formula == CHORD_FORMULAS[formulaIndex]
              root == stackedChord[formula.rootIndex + 1]
              bass == LowestClass(notes.list)
          IN  /\ Len(notes.list) >= 3
              /\ root # bass => result = ClassName(root, useFlats) \o formula.name
                                         \o "/" \o ClassName(bass, useFlats)
              /\ root = bass => result = ClassName(root, useFlats) \o formula.name
    /\ (Returned /\ notes.present /\ AllWellFormed(notes.list) /\ Len(notes.list) >= 3
        /\ SoundedClasses(notes.list) = {0, 4, 7})
       => /\ LowestClass(notes.list) = 0 => result = "C"
          /\ LowestClass(notes.list) = 4 => result = "C/E"

\* C5 witness: the C major triad with E in the bass was named "C/E".
C5_Witness ==
    /\ Returned /\ branch = "match"
    /\ notes.list = <<<<"E", "4">>, <<"G", "4">>, <<"C", "5">>>>
    /\ CHORD_FORMULAS[formulaIndex].name = ""
    /\ stackedChord[CHORD_FORMULAS[formulaIndex].rootIndex + 1] = 0
    /\ result = "C/E"

IsDim7Shape(S) == \E r \in PitchClasses : S = {(r + 3 * k) % 12 : k \in 0..3}
IsAugmentedShape(S) == \E r \in PitchClasses : S = {(r + 4 * k) % 12 : k \in 0..2}

\* C6: for every input whose pitch classes form a diminished-seventh or an
\* augmented shape the name is bassName + "dim7" or bassName + "+", the bass
\* being the pitch class of the lowest note, whichever member that is.
C6_SymmetricRootIsBass ==
    (Returned /\ notes.present /\ Len(notes.list) >= 3 /\ AllWellFormed(notes.list))
    => /\ IsDim7Shape(SoundedClasses(notes.list))
          => result = ClassName(LowestClass(notes.list), useFlats) \o "dim7"
       /\ IsAugmentedShape(SoundedClasses(notes.list))
          => result = ClassName(LowestClass(notes.list), useFlats) \o "+"

\* C6 witness: a diminished-seventh input whose canonical ordering puts
\* another member than the bass at the template's rootIndex.
C6_Witness ==
    /\ Returned /\ branch = "match" /\ AllWellFormed(notes.list)
    /\ IsDim7Shape(SoundedClasses(notes.list))
    /\ stackedChord[CHORD_FORMULAS[formulaIndex].rootIndex + 1] # LowestClass(notes.list)
    /\ result = ClassName(LowestClass(notes.list), useFlats) \o "dim7"

FlatSpelledCm7 == <<<<"C", "4">>, <<"E", "b", "4">>, <<"G", "4">>, <<"B", "b", "4">>>>
SharpSpelledCm7 == <<<<"C", "4">>, <<"D", "#", "4">>, <<"G", "4">>, <<"A", "#", "4">>>>

\* C7 as stated: detectChord on C4, Eb4, G4, Bb4 returns "Cm7".
C7_FlatSpelledCm7 ==
    (Returned /\ notes.present /\ notes.list = FlatSpelledCm7) => result = "Cm7"

\* C7 amended: detectChord on C4, D#4, G4, A#4 returns "Cm7" under either
\* spelling flag; on C4, Eb4, G4, Bb4 the two flat-spelled identifiers parse
\* to -1 and the call returns the fallback listing "(, C, G)".
C7_SharpSpelledCm7 ==
    /\ (Returned /\ notes.present /\ notes.list = SharpSpelledCm7) => result = "Cm7"
    /\ (Returned /\ notes.present /\ notes.list = FlatSpelledCm7)
       => /\ noteClasses = <<-1, 0, 7>>
          /\ result = "(, C, G)"

C7_Witness ==
    /\ Returned /\ notes.list = SharpSpelledCm7 /\ useFlats
    /\ CHORD_FORMULAS[formulaIndex].name = "m7" /\ result = "Cm7"

\* C8: detectChord returns null exactly when the list is empty or absent;
\* every nonempty list yields a string.
C8_NullOnlyWhenEmpty ==
    Returned
    => /\ (outcome = "null") <=> (~notes.present \/ notes.list = <<>>)
       /\ (notes.present /\ notes.list # <<>>) => outcome = "string"

\* C8 witness: three identifiers none of which is a note still gave a string.
C8_Witness ==
    /\ Returned /\ notes.present /\ Len(notes.list) = 3
    /\ \A i \in 1..3 : ~WellFormed(notes.list[i])
    /\ outcome = "string"

\* C9: no list of strings makes detectChord raise -- an identifier that is
\* not of the note format is parsed to -1, and the call returns a string from
\* one of its return statements.
C9_MalformedNeverRaises ==
    /\ \A id \in Alphabet \cup Range(FlatSpelledCm7) :
           ~NoteFormat(id) => noteToMidi(id) = -1
    /\ (Returned /\ notes.present /\ notes.list # <<>>)
       => /\ outcome = "string"
          /\ branch \in {"single", "interval", "soup", "match", "fallback"}
          /\ (\E i \in 1..Len(notes.list) : ~NoteFormat(notes.list[i]))
             => (Len(notes.list) >= 3 => -1 \in Range(noteClasses))

\* C9 witness: a malformed identifier went through the stacking search and the
\* database scan, and the call returned a string.
C9_Witness ==
    /\ Returned /\ notes.present /\ Len(notes.list) >= 3
    /\ \E i \in 1..Len(notes.list) : ~NoteFormat(notes.list[i])
    /\ \E i \in 1..Len(notes.list) : WellFormed(notes.list[i])
    /\ searchRuns = 1 /\ scanRuns = 1 /\ outcome = "string"

\* C10: three or more notes with 9 or more distinct pitch classes give the
\* lowest note's pitch-class name followed by " Note Soup", and neither the
\* stacking search nor the database scan runs.
C10_NoteSoup ==
    (Returned /\ notes.present /\ Len(notes.list) >= 3 /\ AllWellFormed(notes.list)
     /\ Cardinality(SoundedClasses(notes.list)) >= 9)
    => /\ result = ClassName(LowestClass(notes.list), useFlats) \o " Note Soup"
       /\ searchRuns = 0
       /\ scanRuns = 0

\* C10 witness: exactly nine pitch classes, flat spelling, a black key lowest.
C10_Witness ==
    /\ Returned /\ notes.present /\ AllWellFormed(notes.list)
    /\ Cardinality(SoundedClasses(notes.list)) = 9
    /\ useFlats /\ LowestClass(notes.list) = 3
    /\ result = "Eb Note Soup" /\ searchRuns = 0

\* C11: for exactly two notes detectChord returns
\* "<IntervalName> (<low name>, <high name>)": the interval name of the
\* semitone distance from the lower to the higher note, then the pitch-class
\* names of the lower and of the higher note, in that order, spelled per the
\* flag; C4 with G4 gives "Perfect 5th (C, G)".
C11_TwoNotes ==
    (Returned /\ notes.present /\ Len(notes.list) = 2 /\ AllWellFormed(notes.list))
    => LET a == notes.list[1]
           b == notes.list[2]
           low == IF HeightOf(a) <= HeightOf(b) THEN a ELSE b
           high == IF HeightOf(a) <= HeightOf(b) THEN b ELSE a
           semis == HeightOf(high) - HeightOf(low)
       IN  /\ getIntervalName(semis).found
           /\ result = getIntervalName(semis).name \o " ("
                       \o ClassName(PitchClassOf(low), useFlats) \o ", "
                       \o ClassName(PitchClassOf(high), useFlats) \o ")"
           /\ (semis = 0 => getIntervalName(semis).name = "Unison")
           /\ (semis = 12 => getIntervalName(semis).name = "Octave")
           /\ (notes.list = <<Ident(0, 4), Ident(7, 4)>>
               => result = "Perfect 5th (C, G)")

\* C11 witness: two notes listed higher note first, more than 21 semitones
\* apart, flat spelling.
C11_Witness ==
    /\ Returned /\ notes.present /\ Len(notes.list) = 2 /\ AllWellFormed(notes.list)
    /\ HeightOf(notes.list[1]) - HeightOf(notes.list[2]) > 21
    /\ useFlats /\ result = "Minor 7th (Db, B)"

\* Reorderings of a list: every one for lists of up to MaxNotes notes; for
\* longer lists the reversal, the rotation by one place and the exchange of
\* the first two notes.
Reorderings(list) ==
    LET n == Len(list)
    IN  IF n <= MaxNotes
        THEN {[i \in 1..n |-> list[q[i]]] : q \in Orderings(1..n)}
        ELSE {[i \in 1..n |-> list[n + 1 - i]],
              [i \in 1..n |-> list[(i % n) + 1]],
              [i \in 1..n |-> IF i = 1 THEN list[2] ELSE IF i = 2 THEN list[1] ELSE list[i]]}

\* C12: the result does not depend on the order in which the identifiers are
\* listed: detectChord on a reordering of the list, under the same flag,
\* returns what it returned for the list.
C12_OrderOfListIrrelevant ==
    (Returned /\ notes.present)
    => \A other \in Reorderings(notes.list) :
           LET again == detectChord(CHORD_FORMULAS,
                                    [present |-> TRUE, list |-> other], useFlats)
           IN  again.outcome = outcome /\ again.result = result

\* C12 witness: three notes of three pitch classes listed out of pitch order
\* that matched a template.
C12_Witness ==
    /\ Returned /\ notes.present /\ Len(notes.list) = 3 /\ AllWellFormed(notes.list)
    /\ HeightOf(notes.list[1]) > HeightOf(notes.list[3])
    /\ Cardinality(SoundedClasses(notes.list)) = 3
    /\ branch = "match"

\* C13: detectChord is pure.  No call changes the template database (length,
\* order, entries) or the caller's note list, and whenever a call is made
\* with the note list and flag of the first call it returns what the first
\* call returned, whatever calls were made in between.
C13_Pure ==
    /\ [][pc # "load" => CHORD_FORMULAS' = CHORD_FORMULAS]_vars
    /\ [][pc = "ready" /\ pc' = "returned" => notes' = notes]_vars
    /\ []((Returned /\ notes = firstCall.notes /\ useFlats = firstCall.useFlats)
          => (outcome = firstCall.outcome /\ result = firstCall.result))

\* C13 witness: the third call repeats the first call's unsorted three-note
\* argument and flag, and matched a template of the loaded database.
C13_Witness ==
    /\ Returned /\ calls = 3
    /\ notes = firstCall.notes /\ useFlats = firstCall.useFlats
    /\ Len(notes.list) = 3 /\ AllWellFormed(notes.list)
    /\ HeightOf(notes.list[1]) > HeightOf(notes.list[2])
    /\ branch = "match" /\ result = firstCall.result
    /\ Len(CHORD_FORMULAS) = 60

\* C14: after any sequence of keyboard, mouse and MIDI note events at any
\* octave and transpose setting, every element of the note list the piano
\* hook passes to detectChord has the note format.
C14_ActiveNotesWellFormed ==
    \A i \in 1..Len(notes.list) : NoteFormat(notes.list[i])

RECURSIVE Factorial(_)
Factorial(n) == IF n <= 1 THEN 1 ELSE n * Factorial(n - 1)

\* C15: on n distinct elements the permutation generator yields n! orderings,
\* every ordering of the elements exactly once, and what it yielded stays as
\* yielded: the ordering the resolver retained is one of them.
C15_EveryOrderingOnce ==
    (Returned /\ searchRuns = 1 /\ Len(noteClasses) >= 2)
    => LET out == permutations(noteClasses, Len(noteClasses)).out
       IN  /\ Len(out) = Factorial(Len(noteClasses))
           /\ Cardinality(Range(out)) = Len(out)
           /\ Range(out) = Orderings(Range(noteClasses))
           /\ stackedChord \in Range(out)

\* C15 witness: a search over four pitch classes whose result is not the
\* order the generator was given.
C15_Witness ==
    /\ Returned /\ searchRuns = 1 /\ Len(noteClasses) = 4
    /\ Len(permutations(noteClasses, 4).out) = 24
    /\ stackedChord # noteClasses
    /\ stackedChord # permutations(noteClasses, 4).array

\* The pattern of an ordering of n pitch classes: n - 1 entries in 1..11.
PatternInRange(q) ==
    LET pattern == getIntervalPattern(q)
    IN  /\ Len(pattern) = Len(q) - 1
        /\ \A i \in 1..Len(pattern) : pattern[i] \in 1..11

\* The orderings the database build enumerates: those of each definition's
\* pitch classes.
BuildPatternsInRange ==
    \A i \in 1..Len(TopLevelDefinitions) :
        LET d == TopLevelDefinitions[i]
            classes == {TokenClass[d.noteStr[k]] : k \in 1..Len(d.noteStr)}
        IN  /\ Cardinality(classes) = Len(d.noteStr)
            /\ \A q \in Orderings(classes) : PatternInRange(q)

\* C16: every ordering of n >= 2 distinct pitch classes that reaches
\* getIntervalPattern from well-formed input has a pattern of n - 1 entries,
\* each in 1..11 (never 0 and never 12): the orderings the resolver searches
\* at query time, the ordering it returns, and the orderings of the
\* database build.
C16_PatternEntries ==
    /\ (Returned /\ notes.present /\ AllWellFormed(notes.list)
        /\ searchRuns = 1 /\ Len(noteClasses) >= 2)
       => /\ \A q \in Range(permutations(noteClasses, Len(noteClasses)).out) :
                 PatternInRange(q)
          /\ PatternInRange(stackedChord)
    /\ pc # "load" => BuildPatternsInRange

\* C16 witness: a query whose sorted pitch classes are not ascending (the
\* bass is not the smallest class), so that raw differences are negative.
C16_Witness ==
    /\ Returned /\ notes.present /\ AllWellFormed(notes.list)
    /\ searchRuns = 1 /\ Len(noteClasses) = 4
    /\ noteClasses[1] > noteClasses[2]
    /\ \E i \in 1..3 : stackedChord[i + 1] < stackedChord[i]

\* C17: the pattern's length always equals the number of distinct pitch
\* classes minus one, so a single-pitch-class set has an empty pattern, and
\* an input of three or more notes that share one pitch class is not looked
\* up in the template database.
C17_LengthIsClassesMinusOne ==
    (Returned /\ notes.present /\ Len(notes.list) >= 3 /\ AllWellFormed(notes.list)
     /\ Cardinality(SoundedClasses(notes.list)) < 9)
    => /\ Len(getIntervalPattern(stackedChord))
              = Cardinality(SoundedClasses(notes.list)) - 1
       /\ (Cardinality(SoundedClasses(notes.list)) = 1 => scanRuns = 0)

\* C17 as amended: with two or more distinct pitch classes the pattern has
\* one entry fewer than there are classes; a single pitch class has the
\* one-entry pattern <<0>>, and three or more notes sharing one pitch class
\* go through the database scan like any other input, match no template and
\* return the fallback listing of the one name.
C17_SingleClassIsScanned ==
    (Returned /\ notes.present /\ Len(notes.list) >= 3 /\ AllWellFormed(notes.list)
     /\ Cardinality(SoundedClasses(notes.list)) < 9)
    => LET n == Cardinality(SoundedClasses(notes.list))
           pattern == getIntervalPattern(stackedChord)
       IN  /\ n >= 2 => Len(pattern) = n - 1
           /\ n = 1 => /\ pattern = <<0>>
                       /\ searchRuns = 1 /\ scanRuns = 1 /\ formulaIndex = 0
                       /\ branch = "fallback"
                       /\ result = "(" \o ClassName(LowestClass(notes.list), useFlats)
                                   \o ")"

\* C17 witness: three notes, one pitch class, two octaves, scanned and not
\* matched.
C17_Witness ==
    /\ Returned /\ notes.present /\ Len(notes.list) = 3 /\ AllWellFormed(notes.list)
    /\ SoundedClasses(notes.list) = {4}
    /\ \E i \in 1..3 : OctaveOf(notes.list[i]) # OctaveOf(notes.list[1])
    /\ scanRuns = 1 /\ result = "(E)"

\* The pitch classes of a list of well-formed notes, each once, ordered by
\* the height of the lowest note that sounds it.
RECURSIVE ByLowestNote(_, _)
ByLowestNote(list, classes) ==
    IF classes = {} THEN <<>>
    ELSE LET Lowest(c) == CHOOSE h \in {HeightOf(list[i]) : i \in 1..Len(list)} :
                              /\ \E i \in 1..Len(list) :
                                     PitchClassOf(list[i]) = c /\ HeightOf(list[i]) = h
                              /\ \A i \in 1..Len(list) :
                                     PitchClassOf(list[i]) = c => h <= HeightOf(list[i])
             c0 == CHOOSE c \in classes : \A d \in classes : Lowest(c) <= Lowest(d)
         IN  <<c0>> \o ByLowestNote(list, classes \ {c0})

\* C18: three or more notes with fewer than 9 distinct pitch classes that
\* match no template return the distinct pitch-class names, spelled per the
\* flag, joined by ", " in parentheses, in order of first occurrence in the
\* ascending-pitch note list: the lowest note's class first, not the stacked
\* order.
C18_FallbackListing ==
    (Returned /\ notes.present /\ Len(notes.list) >= 3 /\ AllWellFormed(notes.list)
     /\ Cardinality(SoundedClasses(notes.list)) < 9 /\ formulaIndex = 0)
    => LET order == ByLowestNote(notes.list, SoundedClasses(notes.list))
       IN  /\ order[1] = LowestClass(notes.list)
           /\ result = "(" \o JoinNames([i \in 1..Len(order) |->
                                            ClassName(order[i], useFlats)]) \o ")"

\* C18 witness: three pitch classes that match no template, the lowest note
\* not the first of the stacked order, flat spelling.
C18_Witness ==
    /\ Returned /\ notes.present /\ AllWellFormed(notes.list)
    /\ formulaIndex = 0 /\ scanRuns = 1
    /\ stackedChord = <<0, 1, 2>>
    /\ useFlats /\ result = "(Db, C, D)"

\* C19: the permutation search is never run on more than 8 distinct pitch
\* classes at query time (9 or more return the Note Soup label first) and on
\* at most 7 at database-build time, so no call enumerates more than
\* 8! = 40320 orderings, and every call comes back with a value.
C19_SearchSizeBounded ==
    /\ (Returned /\ searchRuns = 1)
       => /\ Len(noteClasses) <= 8
          /\ Len(permutations(noteClasses, Len(noteClasses)).out) <= 40320
    /\ (Returned /\ Len(noteClasses) >= 9) => (searchRuns = 0 /\ branch = "soup")
    /\ \A i \in 1..Len(TopLevelDefinitions) : Len(TopLevelDefinitions[i].noteStr) <= 7
    /\ Returned => outcome \in {"null", "string"}

\* C19 witness: the largest searches made, over the seven pitch classes of a
\* thirteenth chord, and a nine-class input that was not searched.
C19_Witness ==
    /\ Returned /\ searchRuns = 1 /\ Len(noteClasses) = 7
    /\ Len(permutations(noteClasses, 7).out) = 5040
    /\ \E i \in 1..Len(TopLevelDefinitions) : Len(TopLevelDefinitions[i].noteStr) = 7

\* C19 second case, reached as well: nine pitch classes, no search.
C19_SoupReached ==
    Returned /\ Len(noteClasses) = 9 /\ searchRuns = 0 /\ branch = "soup"

\* The letter-and-accidental part of an identifier, as a string.
NamePart(id) == IF Len(id) = 3 THEN id[1] \o id[2] ELSE id[1]

\* C20: noteToMidi maps an identifier of the note format (letter A-G,
\* optional #, octave digit d) to 12 * (d + 1) plus a pitch-class index in
\* 0..11, and every other string to -1; midiToNoteName of that pitch gives
\* back the identifier's letter-and-accidental part under sharp spelling and
\* the flat name at the same index under flat spelling.
C20_ParseAndName ==
    (Returned /\ notes.present) =>
    \A i \in 1..Len(notes.list) :
        LET id == notes.list[i]
            d == IndexOf(DigitChars, id[Len(id)])
        IN  IF NoteFormat(id)
            THEN \E index \in 0..11 :
                     /\ noteToMidi(id) = 12 * (d + 1) + index
                     /\ midiToNoteName(noteToMidi(id), TRUE) = NamePart(id)
                     /\ midiToNoteName(noteToMidi(id), FALSE) = FLAT_NOTES[index + 1]
            ELSE noteToMidi(id) = -1

\* C21: once the module is evaluated, the database holds the templates named
\* m(maj9) and m7(b9) of the block of lines 240-245, after the definitions
\* listed above the block.
C21_OnLoadTemplatesPresent ==
    pc # "load" =>
        \A n \in {"m(maj9)", "m7(b9)"} :
            \E k \in 1..Len(CHORD_FORMULAS) :
                /\ CHORD_FORMULAS[k].name = n
                /\ k > Len(TopLevelDefinitions)

\* The sustain pedal is physically down: Space is held, or the last Control
\* Change 64 carried a value of 64 or more.
PedalHeld == "Space" \in keysDown \/ midiPedal

\* Every note active before the step is active, and handed to detectChord,
\* after it.
ActiveNotesKept ==
    \A n \in Range(activeNotes) :
        n \in Range(activeNotes') /\ n \in Range(notes'.list)

PhysicallyHeld(n) ==
    \/ \E code \in keysDown \cap NoteKeyCodes : keySounds[code] = n
    \/ pointerNote = n
    \/ \E m \in midiOn : midiSounds[m] = n

\* A step in which a sustain pedal goes up.
PedalLifted ==
    \/ "Space" \in keysDown /\ "Space" \notin keysDown'
    \/ midiPedal /\ ~midiPedal'

Revoicings(list) ==
    LET S == SoundedClasses(list)
        b == LowestClass(list)
    IN  {Voicing(S, b, FALSE), Voicing(S, b, TRUE),
         <<Ident(b, BaseOctave + 2)>> \o Voicing(S, b, FALSE)}

\* C24: for three or more well-formed notes the result depends only on the
\* set of pitch classes sounded, the pitch class of the lowest note and the
\* spelling flag: every other voicing of the same classes over the same bass
\* class returns the same string.
C24_DependsOnClassesAndBass ==
    (Returned /\ notes.present /\ Len(notes.list) >= 3 /\ AllWellFormed(notes.list))
    => \A other \in Revoicings(notes.list) :
           Len(other) >= 3 =>
               detectChord(CHORD_FORMULAS, [present |-> TRUE, list |-> other],
                           useFlats).result = result

\* How far the property checks shift a note list, in semitones either way.
MaxShift == 2
Shifts == (-MaxShift..MaxShift) \ {0}

\* The note k semitones away from a well-formed note.
ShiftNote(id, k) ==
    LET h == HeightOf(id) + k
    IN  Ident(h % 12, h \div 12)
ShiftList(list, k) == [i \in 1..Len(list) |-> ShiftNote(list[i], k)]
ShiftStaysWellFormed(list, k) ==
    \A i \in 1..Len(list) : HeightOf(list[i]) + k \in 0..119

IntervalLabels == {getIntervalName(d).name : d \in 0..21} \cup {"Interval"}

\* The strings detectChord can build from a label or suffix and pitch-class
\* names, each name moved k semitones.
ShiftedClass(p, k, flats) == ClassName((p + k) % 12, flats)
IntervalString(label, low, high, k, flats) ==
    label \o " (" \o ShiftedClass(low, k, flats) \o ", "
          \o ShiftedClass(high, k, flats) \o ")"
ChordString(root, suffix, bass, k, flats) ==
    ShiftedClass(root, k, flats) \o suffix
    \o (IF root # bass THEN "/" \o ShiftedClass(bass, k, flats) ELSE "")
ListingString(classes, k, flats) ==
    "(" \o JoinNames([i \in 1..Len(classes) |-> ShiftedClass(classes[i], k, flats)]) \o ")"

\* C25: transposition equivariance.  For a list of well-formed notes and a
\* shift k that keeps every note well-formed, detectChord on the shifted list
\* takes the same branch and returns the string of the original list with
\* every pitch-class name in it (single note, interval ends, root, bass,
\* listed classes) moved k semitones and the interval name, the chord suffix
\* or the Note Soup label unchanged.
C25_TranspositionEquivariant ==
    (Returned /\ notes.present /\ notes.list # <<>> /\ AllWellFormed(notes.list))
    => \A k \in Shifts :
           ShiftStaysWellFormed(notes.list, k) =>
           LET again == detectChord(CHORD_FORMULAS,
                                    [present |-> TRUE, list |-> ShiftList(notes.list, k)],
                                    useFlats)
               bass == LowestClass(notes.list)
           IN  /\ again.branch = branch
               /\ branch = "single" =>
                      /\ result = ShiftedClass(bass, 0, useFlats)
                      /\ again.result = ShiftedClass(bass, k, useFlats)
               /\ branch = "interval" =>
                      \E label \in IntervalLabels :
                          \E high \in SoundedClasses(notes.list) :
                              /\ result = IntervalString(label, bass, high, 0, useFlats)
                              /\ again.result = IntervalString(label, bass, high, k, useFlats)
               /\ branch = "soup" =>
                      /\ result = ShiftedClass(bass, 0, useFlats) \o " Note Soup"
                      /\ again.result = ShiftedClass(bass, k, useFlats) \o " Note Soup"
               /\ branch = "match" =>
                      \E root \in PitchClasses :
                          LET suffix == CHORD_FORMULAS[formulaIndex].name
                          IN  /\ result = ChordString(root, suffix, bass, 0, useFlats)
                              /\ again.result = ChordString(root, suffix, bass, k, useFlats)
               /\ branch = "fallback" =>
                      /\ result = ListingString(noteClasses, 0, useFlats)
                      /\ again.result = ListingString(noteClasses, k, useFlats)

\* C25 witness: a slash chord whose bass and root both wrap around the octave
\* boundary of the name table under the shifts tried.
C25_Witness ==
    /\ Returned /\ notes.present /\ AllWellFormed(notes.list)
    /\ branch = "match" /\ LowestClass(notes.list) = 11
    /\ stackedChord[CHORD_FORMULAS[formulaIndex].rootIndex + 1] = 0
    /\ \A k \in Shifts : ShiftStaysWellFormed(notes.list, k)
    /\ result = "CMaj7/B"

\* Cyclic gap after pitch class a in the set S: the semitones up to the next
\* pitch class of S, going round the octave.
GapAfter(S, a) ==
    CHOOSE g \in 1..12 :
        /\ \E b \in S \ {a} : (b - a + 12) % 12 = g
        /\ \A b \in S \ {a} : (b - a + 12) % 12 >= g
LargestGap(S) == CHOOSE g \in 1..12 :
                     /\ \E a \in S : GapAfter(S, a) = g
                     /\ \A a \in S : GapAfter(S, a) <= g

\* C26: for a set of 2 to 8 distinct pitch classes the ordering chosen by
\* getAsStackedChord is a cyclic rotation of the set in ascending order that
\* starts immediately after a largest cyclic gap, and its energy is 12 minus
\* the largest cyclic gap.
C26_RotationAfterLargestGap ==
    (Returned /\ searchRuns = 1 /\ outcome = "string"
     /\ Range(noteClasses) \subseteq PitchClasses /\ Len(noteClasses) \in 2..8)
    => LET S == Range(noteClasses)
           asc == Ascending(S)
           n == Len(asc)
       IN  /\ \E r \in 1..n :
                  stackedChord = [i \in 1..n |-> asc[((r + i - 2) % n) + 1]]
           /\ (stackedChord[1] - stackedChord[n] + 12) % 12 = LargestGap(S)
           /\ GapAfter(S, stackedChord[n]) = LargestGap(S)
           /\ ForwardEnergy(stackedChord) = 12 - LargestGap(S)

\* C26 witness: the dominant seventh on C, whose largest gap is the major
\* third above C, so the ordering starts on E.
C26_Witness ==
    /\ Returned /\ searchRuns = 1
    /\ noteClasses = <<0, 4, 7, 10>>
    /\ stackedChord = <<4, 7, 10, 0>>
    /\ LargestGap({0, 4, 7, 10}) = 4

\* The forward semitone distances of an ordering of pitch classes.
ForwardPattern(q) == [i \in 1..(Len(q) - 1) |-> (q[i + 1] - q[i] + 12) % 12]

\* The orderings of least energy of a set of pitch classes.
MinimumOrderings(S) ==
    LET all == Orderings(S)
        least == CHOOSE e \in {ForwardEnergy(q) : q \in all} :
                     \A q \in all : e <= ForwardEnergy(q)
    IN  {q \in all : ForwardEnergy(q) = least}

\* Element-wise numeric lexicographic order on interval sequences of one length.
NumericallyBefore(a, b) ==
    \E k \in 1..Len(a) :
        /\ a[k] < b[k]
        /\ \A j \in 1..(k - 1) : a[j] = b[j]

\* C27: whenever minimum-energy orderings of a set of distinct pitch classes
\* differ in their patterns, every interval in those patterns is a single
\* digit, at most 6; the comparison of the comma-joined patterns orders them
\* as the element-wise numeric comparison does, and the ordering selected
\* has the numerically least pattern.
C27_StringTieBreakIsNumeric ==
    (Returned /\ searchRuns = 1 /\ outcome = "string"
     /\ Range(noteClasses) \subseteq PitchClasses /\ Len(noteClasses) >= 2)
    => LET least == MinimumOrderings(Range(noteClasses))
           patterns == {ForwardPattern(q) : q \in least}
       IN  Cardinality(patterns) >= 2 =>
               /\ \A p \in patterns : \A i \in 1..Len(p) : p[i] \in 0..6
               /\ \A p \in patterns : \A q \in patterns :
                      (localeCompare(JoinComma(p), JoinComma(q)) < 0)
                          <=> NumericallyBefore(p, q)
               /\ \A p \in patterns :
                      ~NumericallyBefore(p, ForwardPattern(stackedChord))

\* C27 witness: the major seventh on C has two largest gaps (C-E and G-B);
\* the orderings from E and from B tie on energy with patterns 3,4,1 and
\* 1,4,3, and the one from B is selected.
C27_Witness ==
    /\ Returned /\ searchRuns = 1
    /\ Range(noteClasses) = {0, 4, 7, 11}
    /\ <<4, 7, 11, 0>> \in MinimumOrderings({0, 4, 7, 11})
    /\ stackedChord = <<11, 0, 4, 7>>

\* The interval catalog, by semitone distance 0..21.
IntervalCatalog ==
    <<"Unison", "Minor 2nd", "Major 2nd", "Minor 3rd", "Major 3rd", "Perfect 4th",
      "Tritone", "Perfect 5th", "Minor 6th (or #5)", "Major 6th", "Minor 7th",
      "Major 7th", "Octave", "Flat 9th", "9th", "Minor 10th (or #9)", "Major 10th",
      "11th", "Augmented 11th", "Perfect 12th", "Flat 13th", "13th">>

\* A distance folded into 0..21: octaves are taken off while it exceeds 21.
Folded(span) == IF span <= 21 THEN span ELSE 10 + ((span - 10) % 12)

\* C28: for two well-formed notes getIntervalName finds a catalog name -- the
\* name of the distance folded into 0..21 -- whichever way round the
\* difference is taken, so detectChord never produces the generic label
\* "Interval"; two notes of equal pitch give "Unison".
C28_IntervalAlwaysNamed ==
    (Returned /\ notes.present /\ Len(notes.list) = 2 /\ AllWellFormed(notes.list))
    => LET a == HeightOf(notes.list[1])
           b == HeightOf(notes.list[2])
           span == IF a <= b THEN b - a ELSE a - b
           low == IF a <= b THEN notes.list[1] ELSE notes.list[2]
           high == IF a <= b THEN notes.list[2] ELSE notes.list[1]
           names == " (" \o ClassName(PitchClassOf(low), useFlats) \o ", "
                    \o ClassName(PitchClassOf(high), useFlats) \o ")"
       IN  /\ Folded(span) \in 0..21
           /\ \A d \in {span, -span} :
                  /\ getIntervalName(d).found
                  /\ getIntervalName(d).name = IntervalCatalog[Folded(span) + 1]
           /\ branch = "interval"
           /\ result = IntervalCatalog[Folded(span) + 1] \o names
           /\ result # "Interval" \o names
           /\ (span = 0 => result = "Unison" \o names)

\* C28 witness: the widest pair, B9 over C0, 119 semitones apart, from which
\* 12 is taken nine times.
C28_Witness ==
    /\ Returned /\ notes.present /\ AllWellFormed(notes.list)
    /\ notes.list = <<Ident(11, 9), Ident(0, 0)>>
    /\ ~useFlats /\ result = "Major 7th (C, B)"

\* No input is down: no note key, no pressed pointer, no MIDI key, no pedal.
NothingHeld ==
    /\ keysDown \cap NoteKeyCodes = {}
    /\ pointerNote = NoNote
    /\ midiOn = {}
    /\ ~PedalHeld

HeldNotes ==
    {keySounds[code] : code \in keysDown \cap NoteKeyCodes}
        \cup {pointerNote} \cup {midiSounds[m] : m \in midiOn}

====
